---- MODULE Spec2Model ----
(***************************************************************************)
(* Model of the log-to-statistics pipeline of the two analysis scripts     *)
(*   validation_results/20250914_164227/comprehensive_analysis.py          *)
(*   validation_results/20250915_095830_COMPLETE/final_analysis.py         *)
(* Text is a sequence of one-character strings, so that splitting,         *)
(* substring tests, number parsing and the consensus regex are computed    *)
(* from the characters of the input, as the scripts compute them.          *)
(***************************************************************************)
EXTENDS Integers, Sequences, FiniteSets, TLC

(***************************************************************************)
(* Bounds of the model.                                                    *)
(***************************************************************************)
\* longest log content, in lines, given to the parser on its own
MaxLines ==
    2
\* most log files in the working directory
MaxFiles ==
    3
\* largest number of trials given to calculate_confidence_interval
MaxTrials ==
    8
\* decimal digits kept of a parsed real number
FracDigits ==
    3
\* fixed-point resolution of the confidence-interval arithmetic
CIScale ==
    10000

(***************************************************************************)
(* Characters.                                                             *)
(***************************************************************************)
Digits ==
    {"0", "1", "2", "3", "4", "5", "6", "7", "8", "9"}

DigitVal(c) ==
    CASE c = "0" -> 0 [] c = "1" -> 1 [] c = "2" -> 2 [] c = "3" -> 3
      [] c = "4" -> 4 [] c = "5" -> 5 [] c = "6" -> 6 [] c = "7" -> 7
      [] c = "8" -> 8 [] c = "9" -> 9

\* the characters str.split() and str.strip() treat as blank
Whitespace ==
    {" ", "\t", "\r", "\f"}

LowerLetters ==
    <<"a", "b", "c", "d", "e", "f", "g", "h", "i", "j", "k", "l", "m",
      "n", "o", "p", "q", "r", "s", "t", "u", "v", "w", "x", "y", "z">>

UpperLetters ==
    <<"A", "B", "C", "D", "E", "F", "G", "H", "I", "J", "K", "L", "M",
      "N", "O", "P", "Q", "R", "S", "T", "U", "V", "W", "X", "Y", "Z">>

Range(f) ==
    {f[i] : i \in DOMAIN f}

\* the class \w of the re module, on ASCII text
WordChars ==
    Range(LowerLetters) \cup Range(UpperLetters) \cup Digits \cup {"_"}

\* str.lower() on one character
lower(c) ==
    IF c \in Range(UpperLetters)
    THEN LowerLetters[CHOOSE i \in 1..26 : UpperLetters[i] = c]
    ELSE c

\* the characters of the model's texts in code-point order (str comparison)
CodePoints ==
    <<"\t", "\f", "\r", " ", "#", "(", ")", "+", ",", "-", ".", "/">>
    \o <<"0", "1", "2", "3", "4", "5", "6", "7", "8", "9", ":", "=">>
    \o UpperLetters \o <<"[", "]", "_">> \o LowerLetters

ord(c) ==
    CHOOSE i \in 1..Len(CodePoints) : CodePoints[i] = c

(***************************************************************************)
(* String operations of the Python runtime used by the scripts.            *)
(***************************************************************************)
\* s.startswith(p)
startswith(s, p) ==
    Len(s) >= Len(p) /\ SubSeq(s, 1, Len(p)) = p

\* p in s
contains(s, p) ==
    \E i \in 1..(Len(s) - Len(p) + 1) : SubSeq(s, i, i + Len(p) - 1) = p

\* s.split(sep) for a one-character separator: empty fields are kept
RECURSIVE split(_, _)
split(s, sep) ==
    IF \A i \in 1..Len(s) : s[i] # sep
    THEN <<s>>
    ELSE LET i == CHOOSE k \in 1..Len(s) :
                      s[k] = sep /\ \A j \in 1..(k - 1) : s[j] # sep
         IN  <<SubSeq(s, 1, i - 1)>> \o split(SubSeq(s, i + 1, Len(s)), sep)

\* s.split(): split on runs of blanks, no empty tokens
RECURSIVE split_ws(_)
split_ws(s) ==
    IF s = <<>> THEN <<>>
    ELSE IF s[1] \in Whitespace THEN split_ws(Tail(s))
    ELSE LET n == CHOOSE k \in 1..Len(s) :
                      /\ \A j \in 1..k : s[j] \notin Whitespace
                      /\ (k = Len(s) \/ s[k + 1] \in Whitespace)
         IN  <<SubSeq(s, 1, n)>> \o split_ws(SubSeq(s, n + 1, Len(s)))

\* s.split('=', 1): at most one split, at the first '='
split_eq1(s) ==
    IF \A i \in 1..Len(s) : s[i] # "="
    THEN <<s>>
    ELSE LET i == CHOOSE k \in 1..Len(s) :
                      s[k] = "=" /\ \A j \in 1..(k - 1) : s[j] # "="
         IN  <<SubSeq(s, 1, i - 1), SubSeq(s, i + 1, Len(s))>>

RECURSIVE lstrip(_)
lstrip(s) ==
    IF s # <<>> /\ s[1] \in Whitespace THEN lstrip(Tail(s)) ELSE s

RECURSIVE rstrip(_)
rstrip(s) ==
    IF s # <<>> /\ s[Len(s)] \in Whitespace
    THEN rstrip(SubSeq(s, 1, Len(s) - 1))
    ELSE s

\* s.strip()
strip(s) ==
    rstrip(lstrip(s))

\* sep.join(parts) for a one-character separator
RECURSIVE join(_, _)
join(sep, parts) ==
    IF parts = <<>> THEN <<>>
    ELSE IF Len(parts) = 1 THEN parts[1]
    ELSE parts[1] \o <<sep>> \o join(sep, Tail(parts))

\* s.isdigit()
isdigit(s) ==
    s # <<>> /\ \A i \in 1..Len(s) : s[i] \in Digits

\* s < t for strings: lexicographic by code point
RECURSIVE str_lt(_, _)
str_lt(s, t) ==
    IF t = <<>> THEN FALSE
    ELSE IF s = <<>> THEN TRUE
    ELSE IF s[1] = t[1] THEN str_lt(Tail(s), Tail(t))
    ELSE ord(s[1]) < ord(t[1])

(***************************************************************************)
(* Numbers.  A real number is kept in fixed point, Scale units to one, so  *)
(* that "1.0" and "1" are the same value and "0.1" and "0.5" are not; the  *)
(* special values float() accepts keep their kind.                         *)
(***************************************************************************)
RECURSIVE Pow10(_)
Pow10(n) ==
    IF n <= 0 THEN 1 ELSE 10 * Pow10(n - 1)

Scale ==
    Pow10(FracDigits)

\* a digit string in which single underscores may separate digits
NumBody(s) ==
    /\ s # <<>>
    /\ s[1] \in Digits
    /\ s[Len(s)] \in Digits
    /\ \A i \in 1..Len(s) : s[i] \in Digits \cup {"_"}
    /\ \A i \in 1..(Len(s) - 1) : ~(s[i] = "_" /\ s[i + 1] = "_")

RECURSIVE DigitsValue(_)
DigitsValue(s) ==
    IF s = <<>> THEN 0
    ELSE LET front == SubSeq(s, 1, Len(s) - 1)
         IN  IF s[Len(s)] = "_" THEN DigitsValue(front)
             ELSE 10 * DigitsValue(front) + DigitVal(s[Len(s)])

DigitCount(s) ==
    Cardinality({i \in 1..Len(s) : s[i] \in Digits})

Signed(t) ==
    t # <<>> /\ t[1] \in {"+", "-"}

Unsigned(t) ==
    IF Signed(t) THEN Tail(t) ELSE t

\* int(s) for the stripped text t
IntOf(t) ==
    IF NumBody(Unsigned(t))
    THEN [ok |-> TRUE,
          v |-> IF Signed(t) /\ t[1] = "-" THEN 0 - DigitsValue(Unsigned(t))
                ELSE DigitsValue(Unsigned(t))]
    ELSE [ok |-> FALSE, v |-> 0]

\* int(s): ok is FALSE where Python raises ValueError
int(s) ==
    IntOf(strip(s))

S_inf ==
    <<"i", "n", "f">>
S_infinity ==
    <<"i", "n", "f", "i", "n", "i", "t", "y">>
S_nan ==
    <<"n", "a", "n">>

\* the decimal forms float() accepts: digits[.digits][e[sign]digits];
\* ip is the mantissa split at '.', exppart the text after 'e'
DecimalFields(ip, has_exp, exppart) ==
    [ok |-> /\ Len(ip) <= 2
            /\ (ip[1] = <<>> \/ NumBody(ip[1]))
            /\ (Len(ip) < 2 \/ ip[2] = <<>> \/ NumBody(ip[2]))
            /\ (ip[1] # <<>> \/ (Len(ip) = 2 /\ ip[2] # <<>>))
            /\ (has_exp => NumBody(Unsigned(exppart))),
     digits |-> IF Len(ip) = 2 THEN ip[1] \o ip[2] ELSE ip[1],
     nfrac |-> IF Len(ip) = 2 THEN DigitCount(ip[2]) ELSE 0,
     exp |-> IF has_exp /\ NumBody(Unsigned(exppart))
             THEN (IF exppart[1] = "-" THEN 0 - DigitsValue(Unsigned(exppart))
                   ELSE DigitsValue(Unsigned(exppart)))
             ELSE 0]

DecimalOf(me) ==
    IF Len(me) > 2
    THEN [ok |-> FALSE, digits |-> <<>>, nfrac |-> 0, exp |-> 0]
    ELSE DecimalFields(split(me[1], "."), Len(me) = 2,
                       IF Len(me) = 2 THEN me[2] ELSE <<>>)

DecimalParts(low) ==
    DecimalOf(split(low, "e"))

\* the magnitude digits * 10^shift, in Scale units
Magnitude(digits, shift) ==
    IF shift >= 0
    THEN digits * Pow10(shift) * Scale
    ELSE (digits * Scale) \div Pow10(0 - shift)

FloatDecimal(neg, d) ==
    IF d.ok
    THEN [ok |-> TRUE, k |-> "fin",
          v |-> IF neg THEN 0 - Magnitude(DigitsValue(d.digits), d.exp - d.nfrac)
                ELSE Magnitude(DigitsValue(d.digits), d.exp - d.nfrac)]
    ELSE [ok |-> FALSE, k |-> "fin", v |-> 0]

\* float() of the text with sign neg and lower-cased body low
FloatBody(neg, low) ==
    IF low = S_inf \/ low = S_infinity
    THEN [ok |-> TRUE, k |-> IF neg THEN "-inf" ELSE "inf", v |-> 0]
    ELSE IF low = S_nan
    THEN [ok |-> TRUE, k |-> "nan", v |-> 0]
    ELSE FloatDecimal(neg, DecimalParts(low))

FloatOf(t) ==
    FloatBody(Signed(t) /\ t[1] = "-",
              [i \in 1..Len(Unsigned(t)) |-> lower(Unsigned(t)[i])])

\* float(s): ok is FALSE where Python raises ValueError; k is the kind of
\* the value ("fin", "inf", "-inf" or "nan") and v a finite value in
\* Scale units
float(s) ==
    FloatOf(strip(s))

\* a float of the scripts: kind and value, without the parse flag
Num(f) ==
    [k |-> f.k, v |-> f.v]

\* a <= b on floats: every comparison with nan is false
float_le(a, b) ==
    /\ a.k # "nan" /\ b.k # "nan"
    /\ \/ a.k = "-inf"
       \/ b.k = "inf"
       \/ a.k = "fin" /\ b.k = "fin" /\ a.v <= b.v

\* a == b on floats
float_eq(a, b) ==
    a.k # "nan" /\ b.k # "nan" /\ a.k = b.k /\ a.v = b.v

(***************************************************************************)
(* re.search(r'\((\d+)/(\d+)\)', s): the leftmost match.                   *)
(***************************************************************************)
\* length of the run of digits of s that starts at position i
RECURSIVE DigitRun(_, _)
DigitRun(s, i) ==
    IF i <= Len(s) /\ s[i] \in Digits THEN 1 + DigitRun(s, i + 1) ELSE 0

\* the match that starts at position i, for runs of n1 and n2 digits
ConsensusGroups(s, i, n1, n2) ==
    [ok |-> /\ s[i] = "("
            /\ n1 >= 1
            /\ i + 1 + n1 <= Len(s) /\ s[i + 1 + n1] = "/"
            /\ n2 >= 1
            /\ i + 2 + n1 + n2 <= Len(s) /\ s[i + 2 + n1 + n2] = ")",
     g1 |-> SubSeq(s, i + 1, i + n1),
     g2 |-> SubSeq(s, i + n1 + 2, i + n1 + 1 + n2)]

ConsensusFrom(s, i, n1) ==
    ConsensusGroups(s, i, n1, DigitRun(s, i + n1 + 2))

ConsensusAt(s, i) ==
    ConsensusFrom(s, i, DigitRun(s, i + 1))

FirstOf(hits) ==
    CHOOSE k \in hits : \A j \in hits : k <= j

MatchIn(s, hits) ==
    IF hits = {} THEN [found |-> FALSE, g1 |-> <<>>, g2 |-> <<>>]
    ELSE [found |-> TRUE, g1 |-> ConsensusAt(s, FirstOf(hits)).g1,
          g2 |-> ConsensusAt(s, FirstOf(hits)).g2]

\* the match object, or found = FALSE for None
consensus_match(s) ==
    MatchIn(s, {i \in 1..Len(s) : ConsensusAt(s, i).ok})

(***************************************************************************)
(* re.search(flag + r'(\w+)', s): group 1 of the leftmost match, or <<>>   *)
(* for no match.                                                           *)
(***************************************************************************)
RECURSIVE WordRun(_, _)
WordRun(s, i) ==
    IF i <= Len(s) /\ s[i] \in WordChars THEN 1 + WordRun(s, i + 1) ELSE 0

FlagGroup(s, flag, hits) ==
    IF hits = {} THEN <<>>
    ELSE SubSeq(s, FirstOf(hits) + Len(flag),
                FirstOf(hits) + Len(flag) - 1 + WordRun(s, FirstOf(hits) + Len(flag)))

flag_match(s, flag) ==
    FlagGroup(s, flag, {i \in 1..(Len(s) - Len(flag) + 1) :
                           /\ SubSeq(s, i, i + Len(flag) - 1) = flag
                           /\ WordRun(s, i + Len(flag)) >= 1})

(***************************************************************************)
(* The literal strings of the scripts.                                     *)
(***************************************************************************)
S_hash ==
    <<"#", " ">>
S_Seeds ==
    <<"S", "e", "e", "d", "s", ":">>
S_Command ==
    <<"C", "o", "m", "m", "a", "n", "d", ":">>
S_gens ==
    <<"g", "e", "n", "s", "=">>
S_pop ==
    <<"p", "o", "p", "=">>
S_optimizer_eq ==
    <<"o", "p", "t", "i", "m", "i", "z", "e", "r", "=">>
S_fitness_eq ==
    <<"f", "i", "t", "n", "e", "s", "s", "=">>
S_CSV_ROW ==
    <<"C", "S", "V", "_", "R", "O", "W", ",">>
S_H ==
    <<"[", "H", "]">>
S_sweep_optimizer ==
    <<"-", "-", "s", "w", "e", "e", "p", "-", "o", "p", "t", "i", "m", "i", "z", "e", "r", "=">>
S_sweep_fitness ==
    <<"-", "-", "s", "w", "e", "e", "p", "-", "f", "i", "t", "n", "e", "s", "s", "=">>
K_seeds ==
    <<"s", "e", "e", "d", "s">>
K_command ==
    <<"c", "o", "m", "m", "a", "n", "d">>
K_optimizer ==
    <<"o", "p", "t", "i", "m", "i", "z", "e", "r">>
K_fitness ==
    <<"f", "i", "t", "n", "e", "s", "s">>
K_energy_model ==
    <<"e", "n", "e", "r", "g", "y", "_", "m", "o", "d", "e", "l">>
V_ga ==
    <<"g", "a">>
V_task ==
    <<"t", "a", "s", "k">>
V_base ==
    <<"b", "a", "s", "e">>
V_random ==
    <<"r", "a", "n", "d", "o", "m">>
V_cmaes ==
    <<"c", "m", "a", "e", "s">>
V_reg ==
    <<"r", "e", "g">>
V_info ==
    <<"i", "n", "f", "o">>
V_asym ==
    <<"a", "s", "y", "m">>
V_leak ==
    <<"l", "e", "a", "k">>
S_cont ==
    <<"c", "o", "n", "t", "_">>
S_cont_base ==
    <<"c", "o", "n", "t", "_", "b", "a", "s", "e">>
S_binary ==
    <<"b", "i", "n", "a", "r", "y", "_">>
S_discrete ==
    <<"d", "i", "s", "c", "r", "e", "t", "e", "_">>
S_fitness_ ==
    <<"f", "i", "t", "n", "e", "s", "s", "_">>
S_ablation ==
    <<"a", "b", "l", "a", "t", "i", "o", "n", "_">>
S_convergence_pop ==
    <<"c", "o", "n", "v", "e", "r", "g", "e", "n", "c", "e", "_", "p", "o", "p">>

\* the two scripts
Scripts ==
    {"comprehensive_analysis", "final_analysis"}

(***************************************************************************)
(* parse_csv_rows_from_log.  metadata is a mapping from key strings to     *)
(* values, a value being an integer or a string.                           *)
(***************************************************************************)
MInt(n) ==
    [t |-> "int", i |-> n, s |-> <<>>]

MStr(s) ==
    [t |-> "str", i |-> 0, s |-> s]

\* the empty dict
EmptyDict ==
    [k \in {} |-> MInt(0)]

\* d[k] = v
Put(d, k, v) ==
    [x \in (DOMAIN d) \cup {k} |-> IF x = k THEN v ELSE d[x]]

\* metadata[key] = int(value) if value.isdigit() else value
SetParam(metadata, kv) ==
    Put(metadata, kv[1], IF isdigit(kv[2]) THEN MInt(int(kv[2]).v) ELSE MStr(kv[2]))

\* the loop over the key=value tokens of a parameter line of
\* comprehensive_analysis: every token with '=' sets its key
RECURSIVE SetParams(_, _)
SetParams(metadata, parts) ==
    IF parts = <<>> THEN metadata
    ELSE IF contains(Head(parts), <<"=">>)
    THEN SetParams(SetParam(metadata, split_eq1(Head(parts))), Tail(parts))
    ELSE SetParams(metadata, Tail(parts))

\* the mutation of SetKnownParam that keeps the value a key already has
SetKnownParam_keep_first(metadata, kv) ==
    IF kv[1] \in {K_optimizer, K_fitness, K_energy_model} /\ kv[1] \notin DOMAIN metadata
    THEN Put(metadata, kv[1], MStr(kv[2]))
    ELSE metadata

\* if key in ['optimizer', 'fitness', 'energy_model']: metadata[key] = value
SetKnownParam(metadata, kv) ==
    IF kv[1] \in {K_optimizer, K_fitness, K_energy_model}
    THEN Put(metadata, kv[1], MStr(kv[2]))
    ELSE metadata

\* the same loop in final_analysis: only three keys are kept
RECURSIVE SetKnownParams(_, _)
SetKnownParams(metadata, parts) ==
    IF parts = <<>> THEN metadata
    ELSE IF contains(Head(parts), <<"=">>)
    THEN SetKnownParams(SetKnownParam(metadata, split_eq1(Head(parts))), Tail(parts))
    ELSE SetKnownParams(metadata, Tail(parts))

\* metadata[key] = match.group(1) if match else default, where the flag
\* occurs in cmd
SetFlag(metadata, cmd, flag, key, group, default) ==
    IF contains(cmd, flag)
    THEN Put(metadata, key, MStr(IF group # <<>> THEN group ELSE default))
    ELSE metadata

\* the '# ... Command:' branch of final_analysis
CommandFlags(metadata, cmd) ==
    Put(SetFlag(SetFlag(metadata, cmd, S_sweep_optimizer, K_optimizer,
                        flag_match(cmd, S_sweep_optimizer), V_ga),
                cmd, S_sweep_fitness, K_fitness,
                flag_match(cmd, S_sweep_fitness), V_task),
        K_command, MStr(cmd))

\* consensus = (int(group(1)), int(group(2))) if consensus_match else None
ConsensusOf(m) ==
    IF m.found THEN <<int(m.g1).v, int(m.g2).v>> ELSE <<>>

\* the body of the try block, for the converted fields and the remainder
RowOf(sigma, energy_zero, energy_abs1, n_states, remainder) ==
    IF sigma.ok /\ energy_zero.ok /\ energy_abs1.ok /\ n_states.ok
    THEN [ok |-> TRUE,
          row |-> [sigma |-> Num(sigma),
                   energy_zero |-> Num(energy_zero),
                   energy_abs1 |-> Num(energy_abs1),
                   n_states |-> n_states.v,
                   hysteresis |-> contains(remainder, S_H),
                   consensus |-> ConsensusOf(consensus_match(remainder))]]
    ELSE [ok |-> FALSE, row |-> <<>>]

RowOfParts(parts) ==
    IF Len(parts) >= 5
    THEN RowOf(float(parts[1 + 1]), float(parts[2 + 1]), float(parts[3 + 1]),
               int(parts[4 + 1]), join(",", SubSeq(parts, 6, Len(parts))))
    ELSE [ok |-> FALSE, row |-> <<>>]

\* the 'CSV_ROW,' branch: the parsed row, or ok = FALSE where the row is
\* skipped (fewer than 5 fields, or ValueError inside the try block)
ParseRow(line) ==
    RowOfParts(split(line, ","))

\* which branch of the if/elif chain a line takes
IsComment(line) ==
    startswith(line, S_hash)

IsParamLine(which, line) ==
    IF which = "comprehensive_analysis"
    THEN contains(line, S_gens) /\ contains(line, S_pop)
    ELSE contains(line, S_optimizer_eq) /\ contains(line, S_fitness_eq)

IsDataLine(line) ==
    startswith(line, S_CSV_ROW)

\* the state of the loop after a line: the lists, and whether it raised
LoopState(rows, metadata) ==
    [rows |-> rows, metadata |-> metadata, raised |-> FALSE]

\* metadata['seeds'] = int(line.split()[-1])
SeedsLine(rows, metadata, seeds) ==
    IF seeds.ok
    THEN LoopState(rows, Put(metadata, K_seeds, MInt(seeds.v)))
    ELSE [rows |-> rows, metadata |-> metadata, raised |-> TRUE]

\* the '# ... Command:' branch, cmd = line[2:].strip()
CommandLine(which, rows, metadata, cmd) ==
    IF which = "comprehensive_analysis"
    THEN LoopState(rows, Put(metadata, K_command, MStr(cmd)))
    ELSE LoopState(rows, CommandFlags(metadata, cmd))

\* the branch of the lines that start with '# '
CommentLine(which, line, rows, metadata) ==
    IF contains(line, S_Seeds)
    THEN SeedsLine(rows, metadata, int(split_ws(line)[Len(split_ws(line))]))
    ELSE IF contains(line, S_Command)
    THEN CommandLine(which, rows, metadata, strip(SubSeq(line, 3, Len(line))))
    ELSE LoopState(rows, metadata)

\* the branch of the parameter lines
ParamLine(which, line, rows, metadata) ==
    IF which = "comprehensive_analysis"
    THEN LoopState(rows, SetParams(metadata, split_ws(line)))
    ELSE LoopState(rows, SetKnownParams(metadata, split_ws(line)))

\* the branch of the data lines, r = the parsed row
DataLine(rows, metadata, r) ==
    IF r.ok THEN LoopState(Append(rows, r.row), metadata)
    ELSE LoopState(rows, metadata)

\* one iteration of the loop over the lines: the rows and metadata after
\* the line, or raised = TRUE where the iteration raises ValueError
ParseLine(which, line, rows, metadata) ==
    IF IsComment(line) THEN CommentLine(which, line, rows, metadata)
    ELSE IF IsParamLine(which, line) THEN ParamLine(which, line, rows, metadata)
    ELSE IF IsDataLine(line) THEN DataLine(rows, metadata, ParseRow(line))
    ELSE LoopState(rows, metadata)

\* the loop of parse_csv_rows_from_log over lines from..Len(lines)
RECURSIVE ParseLines(_, _, _, _, _)
RECURSIVE ParseRest(_, _, _, _)
ParseRest(which, lines, from, st) ==
    IF st.raised THEN st
    ELSE ParseLines(which, lines, from + 1, st.rows, st.metadata)

ParseLines(which, lines, from, rows, metadata) ==
    IF from > Len(lines) THEN LoopState(rows, metadata)
    ELSE ParseRest(which, lines, from,
                   ParseLine(which, lines[from], rows, metadata))

\* parse_csv_rows_from_log(log_content): (rows, metadata), or raised
parse_csv_rows_from_log(which, log_content) ==
    ParseLines(which, split(log_content, "\n"), 1, <<>>, EmptyDict)

(***************************************************************************)
(* Inputs: the log lines the parser is given.                              *)
(***************************************************************************)
L_row_full ==
    <<"C", "S", "V", "_", "R", "O", "W", ",", "0", ".", "1", ",", "0", ".", "5", ",", "1", ".", "0", ",", "3", ",", "[", "H", "]", "(", "1", "8", "/", "2", "0", ")">>
L_row_plain ==
    <<"C", "S", "V", "_", "R", "O", "W", ",", "0", ".", "5", ",", "0", ".", "5", ",", "1", ".", "0", ",", "2">>
L_row_two_pairs ==
    <<"C", "S", "V", "_", "R", "O", "W", ",", "0", ".", "3", ",", "1", ".", "5", ",", "1", ",", "0", ",", "x", "(", "1", "/", "2", ")", "(", "3", "/", "4", ")">>
L_row_negative ==
    <<"C", "S", "V", "_", "R", "O", "W", ",", "0", ".", "1", ",", "0", ".", "5", ",", "1", ".", "0", ",", "-", "1", ",", "(", "2", "5", "/", "2", "0", ")">>
L_row_gens_pop ==
    <<"C", "S", "V", "_", "R", "O", "W", ",", "0", ".", "1", ",", "0", ".", "5", ",", "1", ".", "0", ",", "3", ",", "g", "e", "n", "s", "=", "1", "2", "0", " ", "p", "o", "p", "=", "4", "0">>
L_row_opt_fit ==
    <<"C", "S", "V", "_", "R", "O", "W", ",", "0", ".", "1", ",", "0", ".", "5", ",", "1", ".", "0", ",", "2", ",", "o", "p", "t", "i", "m", "i", "z", "e", "r", "=", "g", "a", " ", "f", "i", "t", "n", "e", "s", "s", "=", "r", "e", "g">>
L_row_short ==
    <<"C", "S", "V", "_", "R", "O", "W", ",", "a", "b", "c", ",", "0", ".", "5">>
L_row_bad_int ==
    <<"C", "S", "V", "_", "R", "O", "W", ",", "0", ".", "1", ",", "0", ".", "5", ",", "1", ".", "0", ",", "3", ".", "0", ",", "(", "1", "8", "/", "2", "0", ")">>
L_row_nan ==
    <<"C", "S", "V", "_", "R", "O", "W", ",", "n", "a", "n", ",", "0", ".", "5", ",", "1", ".", "0", ",", "3">>
L_row_short_params ==
    <<"C", "S", "V", "_", "R", "O", "W", ",", "a", "b", "c", ",", "g", "e", "n", "s", "=", "1", " ", "p", "o", "p", "=", "2", " ", "o", "p", "t", "i", "m", "i", "z", "e", "r", "=", "g", "a", " ", "f", "i", "t", "n", "e", "s", "s", "=", "r", "e", "g">>
L_seeds ==
    <<"#", " ", "S", "e", "e", "d", "s", ":", " ", "2", "0">>
L_seeds_bad ==
    <<"#", " ", "S", "e", "e", "d", "s", ":", " ", "2", "0", " ", "e", "a", "c", "h">>
L_command ==
    <<"#", " ", "C", "o", "m", "m", "a", "n", "d", ":", " ", ".", "/", "r", "u", "n", " ", "-", "-", "s", "w", "e", "e", "p", "-", "o", "p", "t", "i", "m", "i", "z", "e", "r", "=", "c", "m", "a", "e", "s", " ", "-", "-", "s", "w", "e", "e", "p", "-", "f", "i", "t", "n", "e", "s", "s", "=", "i", "n", "f", "o">>
L_params ==
    <<"g", "e", "n", "s", "=", "1", "2", "0", " ", "p", "o", "p", "=", "4", "0", " ", "o", "p", "t", "i", "m", "i", "z", "e", "r", "=", "r", "a", "n", "d", "o", "m", " ", "f", "i", "t", "n", "e", "s", "s", "=", "r", "e", "g", " ", "e", "n", "e", "r", "g", "y", "_", "m", "o", "d", "e", "l", "=", "l", "e", "a", "k">>
L_text ==
    <<"S", "t", "a", "r", "t", "i", "n", "g", " ", "s", "w", "e", "e", "p">>
L_empty ==
    <<>>

Lines ==
    {L_row_full, L_row_plain, L_row_two_pairs, L_row_negative,
     L_row_gens_pop, L_row_opt_fit, L_row_short, L_row_bad_int, L_row_nan,
     L_row_short_params, L_seeds, L_seeds_bad, L_command, L_params, L_text,
     L_empty}

\* the log contents of at most MaxLines lines
Contents ==
    {join("\n", ls) : ls \in UNION {[1..n -> Lines] : n \in 0..MaxLines}}

(***************************************************************************)
(* State.                                                                  *)
(***************************************************************************)
VARIABLES
    script,        \* the script that runs
    \* parse_csv_rows_from_log, called on its own
    log_content,   \* its argument
    lines,         \* log_content.split('\n')
    line_no,       \* position of the for loop in lines
    rows,          \* the local list rows
    metadata,      \* the local dict metadata
    parse_pc,      \* "idle", "call", "loop", "returned" or "raised"
    \* analyze_results / analyze_final_results
    cwd,           \* the working directory: file name -> content
    pc,            \* position of the run
    log_files,     \* glob.glob('*.log'), in the order glob returns
    file_no,       \* position of the for loop in log_files
    all_data,      \* the unified row list
    experiments,   \* dict experiment name -> data, metadata (in insertion order)
    output,        \* what has been printed, block by block
    summary_file,  \* <<>>, or <<d>> once the summary JSON d is written
    \* calculate_confidence_interval, called on its own
    successes,
    trials,
    interval,      \* <<>>, or the value returned
    ci_pc          \* "idle", "call" or "returned"

parse_vars ==
    <<log_content, lines, line_no, rows, metadata, parse_pc>>

run_vars ==
    <<cwd, pc, log_files, file_no, all_data, experiments, output, summary_file>>

ci_vars ==
    <<successes, trials, interval, ci_pc>>

vars ==
    <<script, parse_vars, run_vars, ci_vars>>

ParseIdle ==
    /\ log_content = <<>>
    /\ lines = <<>>
    /\ line_no = 0
    /\ rows = <<>>
    /\ metadata = EmptyDict
    /\ parse_pc = "idle"

RunIdle ==
    /\ cwd = EmptyDict
    /\ pc = "idle"
    /\ log_files = <<>>
    /\ file_no = 0
    /\ all_data = <<>>
    /\ experiments = <<>>
    /\ output = <<>>
    /\ summary_file = <<>>

CIIdle ==
    /\ successes = 0
    /\ trials = 0
    /\ interval = <<>>
    /\ ci_pc = "idle"

(***************************************************************************)
(* The parser on its own: parse_csv_rows_from_log(log_content), one loop   *)
(* iteration per step.                                                     *)
(***************************************************************************)
InitParse ==
    /\ script \in Scripts
    /\ log_content \in Contents
    /\ lines = <<>>
    /\ line_no = 0
    /\ rows = <<>>
    /\ metadata = EmptyDict
    /\ parse_pc = "call"
    /\ RunIdle
    /\ CIIdle

\* for line in log_content.split('\n'):
SplitLines ==
    /\ parse_pc = "call"
    /\ lines' = split(log_content, "\n")
    /\ line_no' = 1
    /\ parse_pc' = "loop"
    /\ UNCHANGED <<script, log_content, rows, metadata, run_vars, ci_vars>>

\* the loop body on the next line; an uncaught ValueError ends the call
ParseNextLine ==
    /\ parse_pc = "loop"
    /\ line_no <= Len(lines)
    /\ \E st \in {ParseLine(script, lines[line_no], rows, metadata)} :
          IF st.raised
          THEN /\ parse_pc' = "raised"
               /\ UNCHANGED <<rows, metadata, line_no>>
          ELSE /\ rows' = st.rows
               /\ metadata' = st.metadata
               /\ line_no' = line_no + 1
               /\ parse_pc' = "loop"
    /\ UNCHANGED <<script, log_content, lines, run_vars, ci_vars>>

\* return rows, metadata
ParseReturn ==
    /\ parse_pc = "loop"
    /\ line_no > Len(lines)
    /\ parse_pc' = "returned"
    /\ UNCHANGED <<script, log_content, lines, line_no, rows, metadata,
                   run_vars, ci_vars>>

NextParse ==
    \/ SplitLines
    \/ ParseNextLine
    \/ ParseReturn

SpecParse ==
    InitParse /\ [][NextParse]_vars

(***************************************************************************)
(* calculate_confidence_interval.  Probabilities are kept in fixed point,  *)
(* CIScale units to one, and the product p * (1 - p) in units of           *)
(* 1 / CIScale^2; every division and square root rounds down.              *)
(***************************************************************************)
\* z = 1.96, in hundredths
Z100 ==
    196

RECURSIVE SqrtSearch(_, _, _)
SqrtSearch(n, lo, hi) ==
    IF lo >= hi THEN lo
    ELSE LET mid == (lo + hi + 1) \div 2
         IN  IF mid * mid <= n THEN SqrtSearch(n, mid, hi)
             ELSE SqrtSearch(n, lo, mid - 1)

\* the square root of y / CIScale^2, in CIScale units
Sqrt(y) ==
    SqrtSearch(y, 0, IF y < 46340 THEN y ELSE 46340)

Max(a, b) ==
    IF a >= b THEN a ELSE b

Min(a, b) ==
    IF a <= b THEN a ELSE b

\* what a call gives back: the pair returned, or raised = TRUE for an
\* exception (ZeroDivisionError, or the error of a negative square root)
Returned(lo, hi) ==
    [raised |-> FALSE, lower |-> lo, upper |-> hi]

Raised ==
    [raised |-> TRUE, lower |-> 0, upper |-> 0]

\* comprehensive_analysis: normal approximation
\*   margin = z * (p * (1 - p) / trials) ** 0.5
normal_interval(s, n) ==
    IF n = 0 THEN Raised
    ELSE LET p == (s * CIScale) \div n
             pq == p * (CIScale - p)
             margin == (Z100 * Sqrt(pq \div n)) \div 100
         IN  IF pq < 0 THEN Raised
             ELSE Returned(Max(0, p - margin), Min(CIScale, p + margin))

\* final_analysis: Wilson score interval
\*   denominator = 1 + z**2 / trials
\*   centre = (p + z**2 / (2 * trials)) / denominator
\*   margin = z * sqrt((p * (1 - p) + z**2 / (4 * trials)) / trials) / denominator
wilson_interval(s, n) ==
    IF n = 0 THEN Raised
    ELSE LET p == (s * CIScale) \div n
             zz == Z100 * Z100 * CIScale
             denominator == CIScale + zz \div (10000 * n)
             centre == ((p + zz \div (10000 * 2 * n)) * CIScale) \div denominator
             radicand == p * (CIScale - p) + (zz \div (10000 * 4 * n)) * CIScale
             margin == (((Z100 * Sqrt(radicand \div n)) \div 100) * CIScale)
                           \div denominator
         IN  IF radicand < 0 THEN Raised
             ELSE Returned(Max(0, centre - margin), Min(CIScale, centre + margin))

\* the mutation of calculate_confidence_interval that tests successes
\* instead of trials before dividing
calculate_confidence_interval_guard_successes(which, s, n) ==
    IF s = 0 THEN Returned(0, 0)
    ELSE IF which = "comprehensive_analysis" THEN normal_interval(s, n)
    ELSE wilson_interval(s, n)

\* the mutation that takes the failures for the successes
calculate_confidence_interval_failures(which, s, n) ==
    IF n = 0 THEN Returned(0, 0)
    ELSE IF which = "comprehensive_analysis" THEN normal_interval(n - s, n)
    ELSE wilson_interval(n - s, n)

\* calculate_confidence_interval(successes, trials) of the script `which'
calculate_confidence_interval(which, s, n) ==
    IF n = 0 THEN Returned(0, 0)
    ELSE IF which = "comprehensive_analysis" THEN normal_interval(s, n)
    ELSE wilson_interval(s, n)

(***************************************************************************)
(* The interval function on its own.                                       *)
(***************************************************************************)
\* the callers pass a count of rows out of trials rows; the function is
\* also tried with one success too many, and with anything for no trials
SuccessesFor(n) ==
    IF n = 0 THEN 0..MaxTrials ELSE 0..(n + 1)

InitCI ==
    /\ script \in Scripts
    /\ trials \in 0..MaxTrials
    /\ successes \in SuccessesFor(trials)
    /\ interval = <<>>
    /\ ci_pc = "call"
    /\ ParseIdle
    /\ RunIdle

CallCI ==
    /\ ci_pc = "call"
    /\ interval' = <<calculate_confidence_interval(script, successes, trials)>>
    /\ ci_pc' = "returned"
    /\ UNCHANGED <<script, successes, trials, parse_vars, run_vars>>

NextCI ==
    CallCI

SpecCI ==
    InitCI /\ [][NextCI]_vars

(***************************************************************************)
(* The working directory: file names and, for the log files, contents.     *)
(***************************************************************************)
N_cont_base ==
    <<"c", "o", "n", "t", "_", "b", "a", "s", "e", "_", "g", "1", "2", "0", ".", "l", "o", "g">>
N_binary ==
    <<"b", "i", "n", "a", "r", "y", "_", "g", "1", "2", "0", ".", "l", "o", "g">>
N_discrete ==
    <<"d", "i", "s", "c", "r", "e", "t", "e", "_", "g", "1", "2", "0", ".", "l", "o", "g">>
N_notes ==
    <<"n", "o", "t", "e", "s", ".", "t", "x", "t">>
S_dot_log ==
    <<".", "l", "o", "g">>
L_row_binary ==
    <<"C", "S", "V", "_", "R", "O", "W", ",", "0", ".", "1", ",", "1", ".", "0", ",", "1", ".", "0", ",", "2", ",", "(", "2", "0", "/", "2", "0", ")">>

FileNames ==
    {N_cont_base, N_binary, N_discrete, N_notes}

\* a complete run: seed count, a ternary and a binary row with consensus
F_full ==
    join("\n", <<L_seeds, L_row_full, L_row_binary, L_empty>>)

\* rows without a consensus pair, and a malformed row
F_plain ==
    join("\n", <<L_params, L_row_plain, L_row_short>>)

\* no row parses
F_norows ==
    join("\n", <<L_command, L_row_short, L_empty>>)

\* a seed-count line that does not end in an integer
F_badseeds ==
    join("\n", <<L_text, L_seeds_bad>>)

FileContents ==
    {F_full, F_plain, F_norows, F_badseeds}

\* the directories of at most MaxFiles files
Directories ==
    UNION {[names -> FileContents] :
              names \in {S \in SUBSET FileNames : Cardinality(S) <= MaxFiles}}

\* fnmatch of a file name against '*.log': glob skips hidden files
matches_log(name) ==
    /\ Len(name) >= Len(S_dot_log)
    /\ SubSeq(name, Len(name) - Len(S_dot_log) + 1, Len(name)) = S_dot_log
    /\ name[1] # "."

\* the orders glob.glob('*.log') may return the matching names in
GlobResults(dir) ==
    LET found == {name \in DOMAIN dir : matches_log(name)}
    IN  {order \in [1..Cardinality(found) -> found] :
            \A i, j \in 1..Cardinality(found) : i # j => order[i] # order[j]}

\* Path(name).stem: the name without its last suffix
stem(name) ==
    LET dots == {i \in 2..(Len(name) - 1) : name[i] = "."}
    IN  IF dots = {} THEN name
        ELSE SubSeq(name, 1, (CHOOSE i \in dots : \A j \in dots : j <= i) - 1)

\* sorted(names)
RECURSIVE sorted(_)
sorted(names) ==
    IF names = <<>> THEN <<>>
    ELSE LET i == CHOOSE k \in 1..Len(names) :
                      \A j \in 1..Len(names) : ~str_lt(names[j], names[k])
         IN  <<names[i]>> \o
             sorted(SubSeq(names, 1, i - 1) \o SubSeq(names, i + 1, Len(names)))

(***************************************************************************)
(* Dictionaries that keep insertion order (dict, Counter): a sequence of   *)
(* entries with distinct keys.                                             *)
(***************************************************************************)
HasKey(d, key) ==
    \E i \in 1..Len(d) : d[i].key = key

\* d[key] = value: a new key goes last, an old key keeps its place
DictSet(d, key, value) ==
    IF HasKey(d, key)
    THEN [i \in 1..Len(d) |-> IF d[i].key = key
                              THEN [key |-> key, value |-> value] ELSE d[i]]
    ELSE Append(d, [key |-> key, value |-> value])

DictGet(d, key) ==
    d[CHOOSE i \in 1..Len(d) : d[i].key = key].value

\* the mutation of Counter that sets a count instead of adding to it
RECURSIVE Counter_set_one(_)
Counter_set_one(data) ==
    IF data = <<>> THEN <<>>
    ELSE DictSet(Counter_set_one(SubSeq(data, 1, Len(data) - 1)),
                 data[Len(data)].n_states, 1)

\* Counter(row['n_states'] for row in data)
RECURSIVE Counter(_)
Counter(data) ==
    IF data = <<>> THEN <<>>
    ELSE LET front == Counter(SubSeq(data, 1, Len(data) - 1))
             k == data[Len(data)].n_states
         IN  DictSet(front, k, IF HasKey(front, k) THEN DictGet(front, k) + 1 ELSE 1)

\* sorted(state_counts.keys())
RECURSIVE sorted_ints(_)
sorted_ints(S) ==
    IF S = {} THEN <<>>
    ELSE LET m == CHOOSE x \in S : \A y \in S : x <= y
         IN  <<m>> \o sorted_ints(S \ {m})

\* metadata.get(key, default) for the string-valued keys of final_analysis
MetaGet(meta, key, default) ==
    IF key \in DOMAIN meta THEN meta[key].s ELSE default

\* the rows of one file as they stand in all_data
TagRows(which, parsed, name, meta) ==
    [i \in 1..Len(parsed) |->
        IF which = "comprehensive_analysis"
        THEN [sigma |-> parsed[i].sigma, energy_zero |-> parsed[i].energy_zero,
              energy_abs1 |-> parsed[i].energy_abs1,
              n_states |-> parsed[i].n_states,
              hysteresis |-> parsed[i].hysteresis,
              consensus |-> parsed[i].consensus,
              experiment |-> name]
        ELSE [sigma |-> parsed[i].sigma, energy_zero |-> parsed[i].energy_zero,
              energy_abs1 |-> parsed[i].energy_abs1,
              n_states |-> parsed[i].n_states,
              hysteresis |-> parsed[i].hysteresis,
              consensus |-> parsed[i].consensus,
              experiment |-> name,
              optimizer |-> MetaGet(meta, K_optimizer, V_ga),
              fitness |-> MetaGet(meta, K_fitness, V_task),
              energy_model |-> MetaGet(meta, K_energy_model, V_base)]]

S_0_3 ==
    <<"0", ".", "3">>
S_0_1 ==
    <<"0", ".", "1">>
S_g120 ==
    <<"_", "g", "1", "2", "0">>
S_g480 ==
    <<"_", "g", "4", "8", "0">>
S_cont_leak ==
    <<"c", "o", "n", "t", "_", "l", "e", "a", "k">>
S_binary_bare ==
    <<"b", "i", "n", "a", "r", "y">>
S_discrete_bare ==
    <<"d", "i", "s", "c", "r", "e", "t", "e">>
S_pop40 ==
    <<"p", "o", "p", "4", "0">>
S_pop200 ==
    <<"p", "o", "p", "2", "0", "0">>

(***************************************************************************)
(* The report.  What is printed is kept block by block: the name of the    *)
(* block and, where the block is about one item, the item.                 *)
(***************************************************************************)
Say(text) ==
    [text |-> text, arg |-> <<>>]

SayOf(text, arg) ==
    [text |-> text, arg |-> arg]

\* sum(1 for r in data if r['n_states'] == k)
CountStates(data, k) ==
    Len(SelectSeq(data, LAMBDA r : r.n_states = k))

\* [r for r in data if sub in r['experiment']]
InExperiment(data, sub) ==
    SelectSeq(data, LAMBDA r : contains(r.experiment, sub))

\* a / b > c / d for counts a, c and positive b, d
RateGreater(a, b, c, d) ==
    a * d > c * b

\* the rows with a consensus pair: [r for r in all_data if r['consensus']]
WithConsensus(data) ==
    SelectSeq(data, LAMBDA r : r.consensus # <<>>)

\* the title lines of both scripts: the average divides by the number of
\* rows that have a consensus pair
Header(data) ==
    IF WithConsensus(data) = <<>>
    THEN [out |-> <<Say("TITLE"), Say("TOTALS")>>, raised |-> TRUE]
    ELSE [out |-> <<Say("TITLE"), Say("TOTALS"), Say("AVERAGE SEEDS")>>,
          raised |-> FALSE]

\* the mutation of H1Block that compares the two rates only
H1Block_rates_only(data) ==
    LET low_noise == SelectSeq(InExperiment(data, S_cont),
                         LAMBDA r : float_le(r.sigma, Num(float(S_0_3))))
    IN  IF low_noise # <<>>
        THEN <<Say("H1"),
               IF CountStates(low_noise, 3) > CountStates(low_noise, 2)
               THEN Say("H1 Result: PASS") ELSE Say("H1 Result: FAIL")>>
        ELSE <<>>

\* comprehensive_analysis, H1
H1Block(data) ==
    LET cont_data == InExperiment(data, S_cont)
        low_noise == SelectSeq(cont_data,
                         LAMBDA r : float_le(r.sigma, Num(float(S_0_3))))
        ternary_count == CountStates(low_noise, 3)
        binary_count == CountStates(low_noise, 2)
        total_low == Len(low_noise)
        ternary_ci == normal_interval(ternary_count, total_low)
        binary_ci == normal_interval(binary_count, total_low)
    IN  IF cont_data # <<>> /\ low_noise # <<>>
        THEN <<Say("H1"),
               IF /\ RateGreater(ternary_count, total_low, binary_count, total_low)
                  /\ ternary_ci.lower > binary_ci.upper
               THEN Say("H1 Result: PASS") ELSE Say("H1 Result: FAIL")>>
        ELSE <<>>

\* sorted(energy_groups.keys()) for finite keys, as fixed-point values
EnergyKeys(data) ==
    sorted_ints({data[i].energy_zero.v : i \in 1..Len(data)})

\* the mutation of H2Declining that asks for a strictly falling rate
H2Declining_strictly(cont_base) ==
    LET keys == EnergyKeys(cont_base)
        group(i) == SelectSeq(cont_base, LAMBDA r : r.energy_zero.v = keys[i])
    IN  \A i \in 2..Len(keys) :
            RateGreater(CountStates(group(i - 1), 3), Len(group(i - 1)),
                        CountStates(group(i), 3), Len(group(i)))

\* comprehensive_analysis, H2: the loop over the energy_zero groups
H2Declining(cont_base) ==
    LET keys == EnergyKeys(cont_base)
        group(i) == SelectSeq(cont_base, LAMBDA r : r.energy_zero.v = keys[i])
    IN  \A i \in 2..Len(keys) :
            ~RateGreater(CountStates(group(i), 3), Len(group(i)),
                         CountStates(group(i - 1), 3), Len(group(i - 1)))

H2Block(data) ==
    LET cont_base == SelectSeq(InExperiment(data, S_cont_base),
                         LAMBDA r : float_eq(r.sigma, Num(float(S_0_1))))
    IN  IF cont_base # <<>>
        THEN <<Say("H2")>>
             \o [i \in 1..Len(EnergyKeys(cont_base)) |-> Say("H2 group")]
             \o <<IF H2Declining(cont_base)
                  THEN Say("H2 Result: PASS") ELSE Say("H2 Result: FAIL")>>
        ELSE <<>>

\* comprehensive_analysis, H3
H3Block(data) ==
    LET binary_data == InExperiment(data, S_binary)
        ci == normal_interval(CountStates(binary_data, 2), Len(binary_data))
    IN  IF binary_data # <<>>
        THEN <<Say("H3"),
               IF ci.lower * 100 >= 90 * CIScale
               THEN Say("H3 Result: PASS") ELSE Say("H3 Result: FAIL")>>
        ELSE <<>>

\* comprehensive_analysis, the generation and population comparisons
ConvergenceBlock(data) ==
    LET bases == <<S_cont_base, S_cont_leak, S_binary_bare, S_discrete_bare>>
        line(i) == IF /\ InExperiment(data, bases[i] \o S_g120) # <<>>
                      /\ InExperiment(data, bases[i] \o S_g480) # <<>>
                   THEN <<SayOf("generations", bases[i])>> ELSE <<>>
        pop_data == InExperiment(data, S_convergence_pop)
        pop(p) == IF InExperiment(pop_data, p) # <<>>
                  THEN <<SayOf("population", p)>> ELSE <<>>
    IN  <<Say("CONVERGENCE ANALYSIS")>>
        \o line(1) \o line(2) \o line(3) \o line(4)
        \o (IF pop_data # <<>>
            THEN <<Say("Population size effects")>> \o pop(S_pop40) \o pop(S_pop200)
            ELSE <<>>)

\* comprehensive_analysis, the energy-model table of the ablation rows
EnergyBlock(data) ==
    LET ablation_data == InExperiment(data, S_ablation)
        models == {split(ablation_data[i].experiment, "_")[2] :
                      i \in 1..Len(ablation_data)}
    IN  <<Say("ENERGY MODEL ROBUSTNESS")>>
        \o [i \in 1..Cardinality(models) |-> Say("energy model")]

\* comprehensive_analysis, the listing over sorted(log_files)
SummaryBlock(files) ==
    <<Say("EXPERIMENT SUMMARY")>>
    \o [i \in 1..Len(files) |-> SayOf("experiment", stem(sorted(files)[i]))]

\* the state distribution table: one line per category, ascending
DistributionBlock(data) ==
    LET state_counts == Counter(data)
        states == sorted_ints({state_counts[i].key : i \in 1..Len(state_counts)})
    IN  <<Say("STATE DISTRIBUTION")>>
        \o [i \in 1..Len(states) |-> Say("state")]

\* everything comprehensive_analysis prints between the title and the save
ComprehensiveBody(data, files) ==
    [out |-> DistributionBlock(data) \o <<Say("Hysteresis")>>
             \o <<Say("HYPOTHESIS VALIDATION")>>
             \o H1Block(data) \o H2Block(data) \o H3Block(data)
             \o ConvergenceBlock(data) \o EnergyBlock(data)
             \o SummaryBlock(files),
     raised |-> FALSE]

\* final_analysis: the lines of one table, one per listed value of a row
\* field for which there are rows
PerValue(text, data, field, values) ==
    LET line(i) == IF SelectSeq(data, LAMBDA r : r[field] = values[i]) # <<>>
                   THEN <<SayOf(text, values[i])>> ELSE <<>>
    IN  line(1) \o line(2) \o line(3)

Optimizers ==
    <<V_ga, V_random, V_cmaes>>

\* final_analysis, no listed optimizer has a ternary row in data
NoTernary(data) ==
    \A i \in 1..Len(Optimizers) :
        CountStates(SelectSeq(data, LAMBDA r : r.optimizer = Optimizers[i]), 3) = 0

\* final_analysis, H1 by optimizer
FinalH1Block(data) ==
    LET cont_data == SelectSeq(InExperiment(data, S_cont),
                         LAMBDA r : float_le(r.sigma, Num(float(S_0_3))))
    IN  <<Say("H1")>>
        \o PerValue("H1 optimizer", cont_data, "optimizer", Optimizers)
        \o <<IF NoTernary(cont_data)
             THEN Say("H1 Result: CONSISTENT ACROSS OPTIMIZERS")
             ELSE Say("H1 Result: OPTIMIZER-DEPENDENT")>>

\* final_analysis, H3 by optimizer
FinalH3Block(data) ==
    LET binary_data == InExperiment(data, S_binary)
        opt_data(i) == SelectSeq(binary_data, LAMBDA r : r.optimizer = Optimizers[i])
        ci(i) == wilson_interval(CountStates(opt_data(i), 2), Len(opt_data(i)))
        line(i) == IF opt_data(i) # <<>>
                   THEN <<SayOf(IF ci(i).lower * 100 >= 90 * CIScale
                                THEN "H3 optimizer: PASS" ELSE "H3 optimizer: FAIL",
                                Optimizers[i])>>
                   ELSE <<>>
    IN  <<Say("H3")>> \o line(1) \o line(2) \o line(3)

\* final_analysis, H5 and the energy-model table
FinalH5Block(data) ==
    <<Say("H5")>>
    \o PerValue("H5 fitness", InExperiment(data, S_fitness_),
                "fitness", <<V_task, V_reg, V_info>>)

FinalEnergyBlock(data) ==
    <<Say("ENERGY MODEL ROBUSTNESS")>>
    \o PerValue("energy model", InExperiment(data, S_cont),
                "energy_model", <<V_base, V_asym, V_leak>>)

\* final_analysis, the three rates of the conclusions, as count and total:
\* each divides by the number of rows of its kind of experiment
ConclusionRates(data) ==
    [continuous_ternary_rate |->
         <<CountStates(InExperiment(data, S_cont), 3), Len(InExperiment(data, S_cont))>>,
     discrete_ternary_rate |->
         <<CountStates(InExperiment(data, S_discrete), 3), Len(InExperiment(data, S_discrete))>>,
     binary_constraint_rate |->
         <<CountStates(InExperiment(data, S_binary), 2), Len(InExperiment(data, S_binary))>>]

ConclusionsRaise(data) ==
    \/ InExperiment(data, S_cont) = <<>>
    \/ InExperiment(data, S_discrete) = <<>>
    \/ InExperiment(data, S_binary) = <<>>

\* everything final_analysis prints between the title and the save
FinalBody(data) ==
    LET tables == DistributionBlock(data) \o FinalH1Block(data)
                  \o FinalH3Block(data) \o FinalH5Block(data)
                  \o FinalEnergyBlock(data)
                  \o <<Say("FINAL SUMMARY"), Say("Experiments completed")>>
    IN  IF ConclusionsRaise(data)
        THEN [out |-> tables, raised |-> TRUE]
        ELSE [out |-> tables \o <<Say("CONCLUSIONS"), Say("Optimizer consistency")>>,
              raised |-> FALSE]

\* the experiments entry of the summary
ExperimentEntries(exps) ==
    [i \in 1..Len(exps) |->
        [name |-> exps[i].key,
         conditions |-> Len(exps[i].value.data),
         metadata |-> exps[i].value.metadata]]

\* summary_data of comprehensive_analysis
ComprehensiveSummary(files, data, exps) ==
    [total_experiments |-> Len(files),
     total_combinations |-> Len(data),
     state_distribution |-> Counter(data),
     hysteresis_rate |-> <<Len(SelectSeq(data, LAMBDA r : r.hysteresis)), Len(data)>>,
     experiments |-> ExperimentEntries(exps)]

\* summary_data of final_analysis
FinalSummary(files, data, exps) ==
    [total_experiments |-> Len(files),
     total_combinations |-> Len(data),
     state_distribution |-> Counter(data),
     continuous_ternary_rate |-> ConclusionRates(data).continuous_ternary_rate,
     discrete_ternary_rate |-> ConclusionRates(data).discrete_ternary_rate,
     binary_constraint_rate |-> ConclusionRates(data).binary_constraint_rate,
     optimizer_consistency |-> NoTernary(InExperiment(data, S_cont)),
     experiments |-> ExperimentEntries(exps)]

(***************************************************************************)
(* analyze_results / analyze_final_results.                                *)
(***************************************************************************)
Init ==
    /\ script \in Scripts
    /\ cwd \in Directories
    /\ pc = "start"
    /\ log_files = <<>>
    /\ file_no = 0
    /\ all_data = <<>>
    /\ experiments = <<>>
    /\ output = <<>>
    /\ summary_file = <<>>
    /\ ParseIdle
    /\ CIIdle

\* log_files = glob.glob('*.log'); without files the run ends here
Glob ==
    /\ pc = "start"
    /\ \E found \in GlobResults(cwd) :
          /\ log_files' = found
          /\ IF found = <<>>
             THEN /\ output' = Append(output, Say("No log files found"))
                  /\ pc' = "done"
                  /\ file_no' = file_no
             ELSE /\ output' = output
                  /\ pc' = "files"
                  /\ file_no' = 1
    /\ UNCHANGED <<script, cwd, all_data, experiments, summary_file,
                   parse_vars, ci_vars>>

\* what one iteration of the loop over log_files does with the parsed file
Record(experiment_name, tagged, meta) ==
    /\ experiments' = DictSet(experiments, experiment_name,
                              [data |-> tagged, metadata |-> meta])
    /\ all_data' = all_data \o tagged
    /\ file_no' = file_no + 1
    /\ pc' = "files"

\* one iteration of the loop over log_files: read, parse, record, tag
ReadLog ==
    /\ pc = "files"
    /\ file_no <= Len(log_files)
    /\ \E parsed \in {parse_csv_rows_from_log(script, cwd[log_files[file_no]])} :
          IF parsed.raised
          THEN /\ pc' = "ValueError"
               /\ UNCHANGED <<file_no, all_data, experiments>>
          ELSE Record(stem(log_files[file_no]),
                      TagRows(script, parsed.rows, stem(log_files[file_no]),
                              parsed.metadata),
                      parsed.metadata)
    /\ UNCHANGED <<script, cwd, log_files, output, summary_file,
                   parse_vars, ci_vars>>

\* if not all_data: print("No valid data found"); return
CheckData ==
    /\ pc = "files"
    /\ file_no > Len(log_files)
    /\ IF all_data = <<>>
       THEN /\ output' = Append(output, Say("No valid data found"))
            /\ pc' = "done"
       ELSE /\ output' = output
            /\ pc' = "header"
    /\ UNCHANGED <<script, cwd, log_files, file_no, all_data, experiments,
                   summary_file, parse_vars, ci_vars>>

\* the title, the totals and the average number of seeds
PrintHeader ==
    /\ pc = "header"
    /\ \E header \in {Header(all_data)} :
          /\ output' = output \o header.out
          /\ pc' = IF header.raised THEN "ZeroDivisionError" ELSE "body"
    /\ UNCHANGED <<script, cwd, log_files, file_no, all_data, experiments,
                   summary_file, parse_vars, ci_vars>>

\* the tables and hypothesis blocks
PrintBody ==
    /\ pc = "body"
    /\ \E body \in {IF script = "comprehensive_analysis"
                    THEN ComprehensiveBody(all_data, log_files)
                    ELSE FinalBody(all_data)} :
          /\ output' = output \o body.out
          /\ pc' = IF body.raised THEN "ZeroDivisionError" ELSE "save"
    /\ UNCHANGED <<script, cwd, log_files, file_no, all_data, experiments,
                   summary_file, parse_vars, ci_vars>>

\* json.dump(summary_data, f, indent=2) and the closing lines
SaveSummary ==
    /\ pc = "save"
    /\ summary_file' = <<IF script = "comprehensive_analysis"
                         THEN ComprehensiveSummary(log_files, all_data, experiments)
                         ELSE FinalSummary(log_files, all_data, experiments)>>
    /\ output' = Append(output, Say("Detailed summary saved"))
    /\ pc' = "done"
    /\ UNCHANGED <<script, cwd, log_files, file_no, all_data, experiments,
                   parse_vars, ci_vars>>

Next ==
    \/ Glob
    \/ ReadLog
    \/ CheckData
    \/ PrintHeader
    \/ PrintBody
    \/ SaveSummary

Spec ==
    Init /\ [][Next]_vars

(***************************************************************************)
(* The runs over a directory of two log files: cont_base_g120.log with     *)
(* command, parameter and row lines in any order, and binary_g120.log.     *)
(***************************************************************************)
\* most lines of cont_base_g120.log
MaxTagLines ==
    3

\* a second parameter line
L_params_asym ==
    <<"o", "p", "t", "i", "m", "i", "z", "e", "r", "=", "g", "a", " ", "f", "i", "t", "n", "e", "s", "s", "=", "i", "n", "f", "o", " ", "e", "n", "e", "r", "g", "y", "_", "m", "o", "d", "e", "l", "=", "a", "s", "y", "m">>

TagLines ==
    {L_command, L_params, L_params_asym, L_row_full, L_row_opt_fit}

TagContents ==
    {join("\n", ls) : ls \in UNION {[1..n -> TagLines] : n \in 0..MaxTagLines}}

TagDirectories ==
    {(N_cont_base :> content) @@ (N_binary :> F_plain) : content \in TagContents}

InitTag ==
    /\ script \in Scripts
    /\ cwd \in TagDirectories
    /\ pc = "start"
    /\ log_files = <<>>
    /\ file_no = 0
    /\ all_data = <<>>
    /\ experiments = <<>>
    /\ output = <<>>
    /\ summary_file = <<>>
    /\ ParseIdle
    /\ CIIdle

SpecTag ==
    InitTag /\ [][Next]_vars

(***************************************************************************)
(* The hypothesis blocks of analyze_results on their own.  all_data is     *)
(* built from sweep rows: each row is the record the parser makes of a     *)
(* CSV_ROW line, tagged with the experiment of its file.                   *)
(***************************************************************************)
\* the CSV_ROW line of one combination of a sweep
SweepLine(sigma, energy_zero, n_states) ==
    S_CSV_ROW \o sigma \o <<",">> \o energy_zero \o <<",", "1", ".", "0", ",">>
        \o n_states

\* count rows of all_data read from count such lines of the file `name'
SweepRows(name, sigma, energy_zero, n_states, count) ==
    LET parsed == parse_csv_rows_from_log("comprehensive_analysis",
                      SweepLine(sigma, energy_zero, n_states))
        tagged == TagRows("comprehensive_analysis", parsed.rows, stem(name),
                          parsed.metadata)
    IN  [i \in 1..count |-> tagged[1]]

\* rows the H1 and H2 blocks must leave out: a ternary row of a binary
\* experiment, and a ternary row of the continuous experiment at high noise
OtherRows ==
    SweepRows(N_binary, S_0_1, <<"0", ".", "2">>, <<"3">>, 1)
    \o SweepRows(N_cont_base, <<"0", ".", "5">>, <<"0", ".", "2">>, <<"3">>, 1)

\* the energy_zero values of the sweep, in the order of the log file
H2Energies ==
    <<<<"1", ".", "0">>, <<"0", ".", "2">>, <<"0", ".", "5">>>>

\* the sizes of an energy_zero group
H2GroupSizes ==
    {0, 1, 2, 5, 10}

\* a group as <<ternary rows, rows>>
H2Groups ==
    {g \in (0..10) \X H2GroupSizes : g[1] <= g[2]}

\* the ternary and the binary cont_base row at sigma = 0.1 of each
\* energy_zero value
H2Ternary ==
    SweepRows(N_cont_base, S_0_1, H2Energies[1], <<"3">>, 1)
    \o SweepRows(N_cont_base, S_0_1, H2Energies[2], <<"3">>, 1)
    \o SweepRows(N_cont_base, S_0_1, H2Energies[3], <<"3">>, 1)

H2Binary ==
    SweepRows(N_cont_base, S_0_1, H2Energies[1], <<"2">>, 1)
    \o SweepRows(N_cont_base, S_0_1, H2Energies[2], <<"2">>, 1)
    \o SweepRows(N_cont_base, S_0_1, H2Energies[3], <<"2">>, 1)

\* the rows of one energy_zero group, the ternary rows first
H2GroupRows(ternary_row, binary_row, g) ==
    [i \in 1..g[2] |-> IF i <= g[1] THEN ternary_row ELSE binary_row]

\* all_data of a sweep over the three energy_zero values
H2Data(ternary, binary, other, g1, g2, g3) ==
    H2GroupRows(ternary[1], binary[1], g1) \o other
        \o H2GroupRows(ternary[2], binary[2], g2)
        \o H2GroupRows(ternary[3], binary[3], g3)

InitH2 ==
    /\ script = "comprehensive_analysis"
    /\ \E ternary \in {H2Ternary}, binary \in {H2Binary},
          other \in {<<>>, OtherRows} :
          \E g1 \in H2Groups, g2 \in H2Groups, g3 \in H2Groups :
             all_data = H2Data(ternary, binary, other, g1, g2, g3)
    /\ pc = "H2"
    /\ cwd = EmptyDict
    /\ log_files = <<>>
    /\ file_no = 0
    /\ experiments = <<>>
    /\ output = <<>>
    /\ summary_file = <<>>
    /\ ParseIdle
    /\ CIIdle

\* the H2 block of analyze_results
PrintH2 ==
    /\ pc = "H2"
    /\ \E block \in {H2Block(all_data)} : output' = output \o block
    /\ pc' = "H2 printed"
    /\ UNCHANGED <<script, cwd, log_files, file_no, all_data, experiments,
                   summary_file, parse_vars, ci_vars>>

SpecH2 ==
    InitH2 /\ [][PrintH2]_vars

\* the low-noise rows of the continuous experiment: ternary rows, binary
\* rows and rows with one state, at most MaxTrials rows
H1Counts ==
    {c \in (0..MaxTrials) \X (0..MaxTrials) \X (0..1) :
        c[1] + c[2] + c[3] <= MaxTrials}

\* all_data with c[1] ternary rows, c[2] binary rows at sigma = 0.3 and
\* c[3] rows with one state
H1Data(c, others) ==
    SweepRows(N_cont_base, S_0_1, <<"0", ".", "5">>, <<"3">>, c[1])
        \o (IF others THEN OtherRows ELSE <<>>)
        \o SweepRows(N_cont_base, S_0_3, <<"0", ".", "5">>, <<"2">>, c[2])
        \o SweepRows(N_cont_base, S_0_1, <<"0", ".", "5">>, <<"1">>, c[3])

InitH1 ==
    /\ script = "comprehensive_analysis"
    /\ \E c \in H1Counts, others \in BOOLEAN : all_data = H1Data(c, others)
    /\ pc = "H1"
    /\ cwd = EmptyDict
    /\ log_files = <<>>
    /\ file_no = 0
    /\ experiments = <<>>
    /\ output = <<>>
    /\ summary_file = <<>>
    /\ ParseIdle
    /\ CIIdle

\* the H1 block of analyze_results
PrintH1 ==
    /\ pc = "H1"
    /\ \E block \in {H1Block(all_data)} : output' = output \o block
    /\ pc' = "H1 printed"
    /\ UNCHANGED <<script, cwd, log_files, file_no, all_data, experiments,
                   summary_file, parse_vars, ci_vars>>

SpecH1 ==
    InitH1 /\ [][PrintH1]_vars

(***************************************************************************)
(* Properties.                                                             *)
(***************************************************************************)
Fin(v) ==
    [k |-> "fin", v |-> v]

\* the decimal n / d as a parsed real
Dec(n, d) ==
    Fin((n * Scale) \div d)

\* the lines of the inputs that begin with CSV_ROW, and carry three real
\* numbers and an integer, with the record each one spells out
ValidRowLines ==
    {L_row_full, L_row_plain, L_row_two_pairs, L_row_negative,
     L_row_gens_pop, L_row_opt_fit}

ExpectedRow(line) ==
    CASE line = L_row_full ->
             [sigma |-> Dec(1, 10), energy_zero |-> Dec(5, 10),
              energy_abs1 |-> Dec(1, 1), n_states |-> 3,
              hysteresis |-> TRUE, consensus |-> <<18, 20>>]
      [] line = L_row_plain ->
             [sigma |-> Dec(5, 10), energy_zero |-> Dec(5, 10),
              energy_abs1 |-> Dec(1, 1), n_states |-> 2,
              hysteresis |-> FALSE, consensus |-> <<>>]
      [] line = L_row_two_pairs ->
             [sigma |-> Dec(3, 10), energy_zero |-> Dec(15, 10),
              energy_abs1 |-> Dec(1, 1), n_states |-> 0,
              hysteresis |-> FALSE, consensus |-> <<1, 2>>]
      [] line = L_row_negative ->
             [sigma |-> Dec(1, 10), energy_zero |-> Dec(5, 10),
              energy_abs1 |-> Dec(1, 1), n_states |-> 0 - 1,
              hysteresis |-> FALSE, consensus |-> <<25, 20>>]
      [] line = L_row_gens_pop ->
             [sigma |-> Dec(1, 10), energy_zero |-> Dec(5, 10),
              energy_abs1 |-> Dec(1, 1), n_states |-> 3,
              hysteresis |-> FALSE, consensus |-> <<>>]
      [] line = L_row_opt_fit ->
             [sigma |-> Dec(1, 10), energy_zero |-> Dec(5, 10),
              energy_abs1 |-> Dec(1, 1), n_states |-> 2,
              hysteresis |-> FALSE, consensus |-> <<>>]

\* the parser is about to run its loop body on the line `line'
AtLine(line) ==
    parse_pc = "loop" /\ line_no <= Len(lines) /\ lines[line_no] = line

\* C1: every line that begins with CSV_ROW, and carries three reals and an
\* integer adds exactly one record, with the values the line spells out,
\* at the end of the rows (so the records are in the order of their lines).
C1_OneRecordPerValidRow ==
    [][\A line \in ValidRowLines :
          AtLine(line) => rows' = Append(rows, ExpectedRow(line))]_vars

\* the CSV_ROW, lines with fewer than 5 fields or a field of the wrong type
MalformedRowLines ==
    {L_row_short, L_row_bad_int, L_row_short_params}

\* C2: a CSV_ROW, line with fewer than 5 fields, or with a sigma,
\* energyZero or energyAbs1 that is not a real number or an nStates that is
\* not an integer, yields no record and no error and leaves rows and
\* metadata as they would be without the line.
C2_MalformedRowIgnored ==
    [][\A line \in MalformedRowLines :
          AtLine(line) => /\ rows' = rows
                          /\ metadata' = metadata
                          /\ parse_pc' = "loop"
                          /\ line_no' = line_no + 1]_vars

\* the lines that fail to parse and are to be skipped
FailingLines ==
    {L_seeds_bad, L_row_short, L_row_bad_int}

\* C7: parse_csv_rows_from_log never raises: a line that fails to parse,
\* a Seeds: comment without a trailing integer included, is skipped with
\* rows and metadata unchanged, and the loop goes on to the next line.
C7_FailingLineSkipped ==
    [][\A line \in FailingLines :
          AtLine(line) => /\ rows' = rows
                          /\ metadata' = metadata
                          /\ parse_pc' = "loop"
                          /\ line_no' = line_no + 1]_vars

\* C8: every record has a non-negative n_states and, when it has a
\* consensus pair, successes <= trials.
C8_RecordsWellFormed ==
    \A i \in 1..Len(rows) :
        /\ rows[i].n_states >= 0
        /\ (rows[i].consensus # <<>> => rows[i].consensus[1] <= rows[i].consensus[2])

\* the log files of the working directory and the rows their lines hold
LogFilesOf(dir) ==
    {name \in DOMAIN dir : matches_log(name)}

IsRowLine(which, line) ==
    /\ ~IsComment(line)
    /\ ~IsParamLine(which, line)
    /\ IsDataLine(line)
    /\ ParseRow(line).ok

RowLines(which, content) ==
    SelectSeq(split(content, "\n"), LAMBDA line : IsRowLine(which, line))

\* the state categories of the rows of each log file, file by file
RowStates(which, dir) ==
    [name \in LogFilesOf(dir) |->
        LET ls == RowLines(which, dir[name])
        IN  [i \in 1..Len(ls) |-> ParseRow(ls[i]).row.n_states]]

\* the (file, row number) pairs of the rows of state category k
RowsOfState(st, k) ==
    UNION {{<<name, i>> : i \in {j \in 1..Len(st[name]) : st[name][j] = k}} :
              name \in DOMAIN st}

AllRows(st) ==
    UNION {{<<name, i>> : i \in 1..Len(st[name])} : name \in DOMAIN st}

RECURSIVE SumCounts(_)
SumCounts(d) ==
    IF d = <<>> THEN 0 ELSE d[1].value + SumCounts(Tail(d))

CountOf(d, k) ==
    IF HasKey(d, k) THEN DictGet(d, k) ELSE 0

\* C3: in the summary written, total_combinations is the number of records
\* parsed across all files, state_distribution[k] is the number of those
\* with n_states = k, and the counts sum to total_combinations.
C3_SummaryCounts ==
    summary_file # <<>> =>
        LET d == summary_file[1]
            st == RowStates(script, cwd)
            states == {d.state_distribution[i].key :
                          i \in 1..Len(d.state_distribution)} \cup (0..4)
        IN  /\ d.total_combinations = Cardinality(AllRows(st))
            /\ \A k \in states :
                   CountOf(d.state_distribution, k) = Cardinality(RowsOfState(st, k))
            /\ \A i, j \in 1..Len(d.state_distribution) :
                   d.state_distribution[i].key = d.state_distribution[j].key => i = j
            /\ SumCounts(d.state_distribution) = d.total_combinations

\* a summary of several files with a state category counted more than once
C3_Witness ==
    /\ summary_file # <<>>
    /\ Len(log_files) >= 2
    /\ summary_file[1].total_combinations >= 4
    /\ Len(summary_file[1].state_distribution) >= 2
    /\ \E i \in 1..Len(summary_file[1].state_distribution) :
           summary_file[1].state_distribution[i].value >= 2

Ended ==
    {"done", "ValueError", "ZeroDivisionError"}

NoRowParses ==
    \A name \in LogFilesOf(cwd) : RowLines(script, cwd[name]) = <<>>

\* C4: with no log file, or with log files none of whose rows parse, the
\* run prints a diagnostic and returns, prints no report section and
\* writes no summary.
C4_EarlyExit ==
    (LogFilesOf(cwd) = {} \/ NoRowParses) =>
        /\ summary_file = <<>>
        /\ output \in {<<>>, <<Say("No log files found")>>,
                       <<Say("No valid data found")>>}
        /\ (pc \in Ended => pc = "done" /\ output # <<>>)

\* C5: the summary does not depend on the order glob returns the files in:
\* its experiments are in name order and its state categories ascending.
C5_SummarySorted ==
    summary_file # <<>> =>
        LET d == summary_file[1]
        IN  /\ \A i \in 1..(Len(d.experiments) - 1) :
                   str_lt(d.experiments[i].name, d.experiments[i + 1].name)
            /\ \A i \in 1..(Len(d.state_distribution) - 1) :
                   d.state_distribution[i].key < d.state_distribution[i + 1].key

\* C6: no rate or average divides by the size of an empty row set: with at
\* least one row the run completes and writes the summary.
C6_DivisionsGuarded ==
    /\ pc # "ZeroDivisionError"
    /\ (pc = "done" /\ all_data # <<>> => summary_file # <<>>)

\* C9: calculate_confidence_interval(successes, 0) returns (0, 0) in both
\* scripts whatever successes is, without a division by trials.
C9_ZeroTrials ==
    (ci_pc = "returned" /\ trials = 0) => interval = <<Returned(0, 0)>>

\* the function has returned for no trials and some successes
C9_Witness ==
    ci_pc = "returned" /\ trials = 0 /\ successes > 0

\* C10: for n >= 5, calculate_confidence_interval(n, n) returns in both
\* scripts an interval with 0 < lower <= upper <= 1.
C10_FullSuccess ==
    (ci_pc = "returned" /\ trials >= 5 /\ successes = trials) =>
        /\ ~interval[1].raised
        /\ 0 < interval[1].lower
        /\ interval[1].lower <= interval[1].upper
        /\ interval[1].upper <= CIScale

\* the Wilson interval of 5 or more successes out of as many trials
C10_Witness ==
    /\ ci_pc = "returned"
    /\ script = "final_analysis"
    /\ trials >= 5
    /\ successes = trials
    /\ interval[1].lower < CIScale

\* the rows the H2 block is about: cont_base experiments at sigma = 0.1
H2Rows ==
    {i \in 1..Len(all_data) :
        /\ contains(all_data[i].experiment, S_cont_base)
        /\ all_data[i].sigma = Dec(1, 10)}

H2RowsAt(e) ==
    {i \in H2Rows : all_data[i].energy_zero = e}

H2TernaryAt(e) ==
    {i \in H2RowsAt(e) : all_data[i].n_states = 3}

H2Values ==
    {all_data[i].energy_zero : i \in H2Rows}

\* b is the next energy_zero value after a
H2Next(a, b) ==
    /\ a.v < b.v
    /\ ~\E c \in H2Values : a.v < c.v /\ c.v < b.v

\* the ternary rate at b is greater than the ternary rate at a
H2Rises(a, b) ==
    Cardinality(H2TernaryAt(b)) * Cardinality(H2RowsAt(a))
        > Cardinality(H2TernaryAt(a)) * Cardinality(H2RowsAt(b))

\* the ternary rates at energy_zero 0.2, 0.5 and 1.0 are r[1], r[2], r[3],
\* each over ten rows
H2TenthsAre(r) ==
    /\ H2Values = {Dec(2, 10), Dec(5, 10), Dec(1, 1)}
    /\ \A e \in H2Values : Cardinality(H2RowsAt(e)) = 10
    /\ Cardinality(H2TernaryAt(Dec(2, 10))) = r[1]
    /\ Cardinality(H2TernaryAt(Dec(5, 10))) = r[2]
    /\ Cardinality(H2TernaryAt(Dec(1, 1))) = r[3]

\* C11: once the H2 block is printed for a non-empty set of cont_base rows
\* at sigma = 0.1, its result is PASS exactly when no energy_zero group, in
\* ascending order of energy_zero, has a greater ternary rate than the group
\* before it, and FAIL exactly when some group has; rates 0.5, 0.4, 0.3
\* give PASS and rates 0.3, 0.5, 0.2 give FAIL.
C11_H2Declining ==
    (pc = "H2 printed" /\ H2Rows # {}) =>
        /\ output # <<>>
        /\ output[1] = Say("H2")
        /\ output[Len(output)] \in {Say("H2 Result: PASS"), Say("H2 Result: FAIL")}
        /\ output[Len(output)] = Say("H2 Result: PASS")
              <=> \A a, b \in H2Values : H2Next(a, b) => ~H2Rises(a, b)
        /\ output[Len(output)] = Say("H2 Result: FAIL")
              <=> \E a, b \in H2Values : H2Next(a, b) /\ H2Rises(a, b)
        /\ H2TenthsAre(<<5, 4, 3>>) => output[Len(output)] = Say("H2 Result: PASS")
        /\ H2TenthsAre(<<3, 5, 2>>) => output[Len(output)] = Say("H2 Result: FAIL")

\* the block has reported FAIL for the rates 0.3, 0.5, 0.2
C11_Witness ==
    /\ pc = "H2 printed"
    /\ H2TenthsAre(<<3, 5, 2>>)
    /\ output[Len(output)] = Say("H2 Result: FAIL")

\* the block has reported PASS for the rates 0.5, 0.4, 0.3
C11_WitnessPass ==
    /\ pc = "H2 printed"
    /\ H2TenthsAre(<<5, 4, 3>>)
    /\ output[Len(output)] = Say("H2 Result: PASS")

\* what each line of cont_base_g120.log and binary_g120.log writes into the
\* metadata of final_analysis, <<>> for a key the line does not set
TagSetBy(line) ==
    CASE line = L_command ->
             [optimizer |-> V_cmaes, fitness |-> V_info, energy_model |-> <<>>]
      [] line = L_params ->
             [optimizer |-> V_random, fitness |-> V_reg, energy_model |-> V_leak]
      [] line = L_params_asym ->
             [optimizer |-> V_ga, fitness |-> V_info, energy_model |-> V_asym]
      [] line = L_row_opt_fit ->
             [optimizer |-> <<>>, fitness |-> V_reg, energy_model |-> <<>>]
      [] OTHER ->
             [optimizer |-> <<>>, fitness |-> <<>>, energy_model |-> <<>>]

\* the value the last line of ls that sets the key writes, or the default
LastSet(ls, key, default) ==
    LET setters == {i \in 1..Len(ls) : TagSetBy(ls[i])[key] # <<>>}
    IN  IF setters = {} THEN default
        ELSE TagSetBy(ls[CHOOSE i \in setters : \A j \in setters : j <= i])[key]

\* the tagged rows of one log file of final_analysis
TaggedRowsOf(name) ==
    LET ls == split(cwd[name], "\n")
        row_lines == SelectSeq(ls, LAMBDA l : l \in {L_row_full, L_row_plain})
    IN  [i \in 1..Len(row_lines) |->
            [sigma |-> ExpectedRow(row_lines[i]).sigma,
             energy_zero |-> ExpectedRow(row_lines[i]).energy_zero,
             energy_abs1 |-> ExpectedRow(row_lines[i]).energy_abs1,
             n_states |-> ExpectedRow(row_lines[i]).n_states,
             hysteresis |-> ExpectedRow(row_lines[i]).hysteresis,
             consensus |-> ExpectedRow(row_lines[i]).consensus,
             experiment |-> SubSeq(name, 1, Len(name) - Len(S_dot_log)),
             optimizer |-> LastSet(ls, "optimizer", V_ga),
             fitness |-> LastSet(ls, "fitness", V_task),
             energy_model |-> LastSet(ls, "energy_model", V_base)]]

\* the tagged rows of the first k log files
RECURSIVE TaggedRowsUpTo(_)
TaggedRowsUpTo(k) ==
    IF k = 0 THEN <<>>
    ELSE TaggedRowsUpTo(k - 1) \o TaggedRowsOf(log_files[k])

\* C12: in final_analysis the unified collection holds, for the files read
\* so far and in their order, every row of the file tagged with the stem of
\* the file and with the optimizer, fitness and energy_model that the last
\* line of the file setting the key wrote, whether that line comes before
\* or after the row, or ga, task, base when no line sets the key.
C12_RowsTagged ==
    (script = "final_analysis" /\ file_no >= 1) =>
        all_data = TaggedRowsUpTo(file_no - 1)

\* a row of cont_base_g120.log that precedes a parameter line, which itself
\* follows the Command line, has been tagged with the parameter line's
\* values, next to a row of the other file tagged with that file's values
C12_Witness ==
    /\ script = "final_analysis"
    /\ pc = "header"
    /\ cwd[N_cont_base] = join("\n", <<L_command, L_row_full, L_params_asym>>)
    /\ \E i, j \in 1..Len(all_data) :
          /\ all_data[i].experiment = stem(N_cont_base)
          /\ all_data[i].optimizer = V_ga
          /\ all_data[i].fitness = V_info
          /\ all_data[i].energy_model = V_asym
          /\ all_data[j].experiment = stem(N_binary)
          /\ all_data[j].optimizer = V_random

\* the rows the H1 block is about: cont_ experiments at sigma <= 0.3
H1Rows ==
    {i \in 1..Len(all_data) :
        /\ contains(all_data[i].experiment, S_cont)
        /\ all_data[i].sigma.k = "fin"
        /\ all_data[i].sigma.v <= Dec(3, 10).v}

H1RowsWith(n_states) ==
    Cardinality({i \in H1Rows : all_data[i].n_states = n_states})

\* the 95% confidence interval of count rows out of the H1 rows
H1Interval(count) ==
    calculate_confidence_interval("comprehensive_analysis", count,
                                  Cardinality(H1Rows))

\* the ternary rate exceeds the binary rate and the intervals do not overlap
H1Passes ==
    /\ H1RowsWith(3) * Cardinality(H1Rows) > H1RowsWith(2) * Cardinality(H1Rows)
    /\ H1Interval(H1RowsWith(3)).lower > H1Interval(H1RowsWith(2)).upper

\* C13: once analyze_results is past its H1 block, the block is printed
\* exactly when there are rows of cont_ experiments with sigma <= 0.3, and
\* its result is PASS when the ternary rate of those rows exceeds their
\* binary rate and the lower bound of the ternary interval is strictly
\* greater than the upper bound of the binary interval, and FAIL otherwise.
C13_H1Verdict ==
    pc = "H1 printed" =>
        IF H1Rows = {} THEN output = <<>>
        ELSE output = <<Say("H1"),
                        IF H1Passes THEN Say("H1 Result: PASS")
                        ELSE Say("H1 Result: FAIL")>>

\* PASS has been reported for a data set with binary rows among the H1 rows
\* and with rows that are not H1 rows
C13_Witness ==
    /\ pc = "H1 printed"
    /\ Len(output) = 2
    /\ output[2] = Say("H1 Result: PASS")
    /\ H1RowsWith(2) > 0
    /\ Cardinality(H1Rows) < Len(all_data)

\* FAIL has been reported although the ternary rate exceeds the binary rate
C13_WitnessOverlap ==
    /\ pc = "H1 printed"
    /\ Len(output) = 2
    /\ output[2] = Say("H1 Result: FAIL")
    /\ H1RowsWith(3) > H1RowsWith(2)

====
